---- MODULE Spec2Model ----
(***************************************************************************)
(* Model of msdatabase's GoogleDriveHandler (google_drive_handler.py):     *)
(* paginated listing (list_files), name-based deduplication                *)
(* (remove_duplicate_files / delete_file), upload_pdf, download_pdf and    *)
(* convert_bytes.  The Drive service is the environment: every store call  *)
(* either answers or raises.                                               *)
(***************************************************************************)
EXTENDS Integers, Sequences, FiniteSets, TLC

VARIABLES
    store,        \* the Drive listing: a sequence of pages, each a sequence of [id, name]
    store0,       \* the store as it was when the running call started
    op,           \* the handler method being run ("" when none)
    pc,           \* position inside the method
    outcome,      \* "" while running, "returned" or "raised" once the call is over
    retKind,      \* what was returned: "None", "list", "id" ("" while running)
    retList,      \* the list returned by list_files
    retId,        \* the id returned by upload_pdf
    files,        \* files / file_list: the records accumulated so far
    page_token,   \* the token the next list request will pass (NoToken = None)
    lastToken,    \* nextPageToken of the last list response
    tokensPassed, \* pageToken argument of every list request of this call
    callLog,      \* store calls of this call, in order
    storeFailed,  \* a store call of this call raised
    dups,         \* duplicate_files_ids
    delIdx,       \* position of the for loop over duplicate_files_ids
    attempts,     \* ids passed to delete_file, in order
    delResults,   \* what each delete_file call returned
    passNo,       \* number of remove_duplicate_files calls started
    prevListed,   \* the previous pass enumerated the whole listing
    prevDeleted,  \* every delete_file call of the previous pass returned True
    localFile,    \* the download destination: [exists, content]
    nChunks,      \* chunks the media of the downloaded file is served in
    written,      \* chunks written to the destination by this download
    progress,     \* the progress values reported after each chunk: [num, den]
    argKind,      \* convert_bytes argument: "int", "str" or "none"
    argInt,       \* its value when it is an int
    argStr,       \* its characters when it is a str
    fmtOut        \* convert_bytes result: [unit, value]; unit names the exception let out

storeVars == <<store, store0>>
callVars  == <<op, pc, outcome, retKind, retList, retId>>
listVars  == <<files, page_token, lastToken, tokensPassed, callLog, storeFailed>>
dedupVars == <<dups, delIdx, attempts, delResults, passNo, prevListed,
               prevDeleted>>
xferVars  == <<localFile, nChunks, written, progress>>
fmtVars   == <<argKind, argInt, argStr, fmtOut>>
vars == <<storeVars, callVars, listVars, dedupVars, xferVars, fmtVars>>

\* ---------------------------------------------------------------- bounds
MaxRecs   == 4
MaxPages  == 3
MaxPasses == 2
MaxChunks == 3
MaxOld    == 1
MaxStrLen == 4

Names   == {"a", "b"}
NoToken == 0

\* ---------------------------------------------------------------- the store
Rec(i, n) == [id |-> i, name |-> n]

\* A listing of n records in MaxPages-or-fewer pages: record j goes to page g[j].
StoreOf(n, f, g, p) ==
    [i \in 1..p |->
        SelectSeq([j \in 1..n |-> Rec(j, f[j])], LAMBDA r : g[r.id] = i)]

InitStores ==
    { StoreOf(n, f, g, p) :
        <<n, f, g, p>> \in
          { q \in UNION { UNION { {n} \X [1..n -> Names] \X [1..n -> 1..p] \X {p}
                                  : p \in 1..MaxPages } : n \in 0..MaxRecs } :
              \A j \in 1..(q[1] - 1) : q[3][j] <= q[3][j + 1] } }

RECURSIVE Flatten(_)
Flatten(pages) ==
    IF pages = <<>> THEN <<>> ELSE Head(pages) \o Flatten(Tail(pages))

\* files().list(pageToken=t).execute(): the first page when t is None
PageNo(t) == IF t = NoToken THEN 1 ELSE t
ListPage(s, t) ==
    [files |-> s[PageNo(t)],
     nextPageToken |-> IF PageNo(t) < Len(s) THEN PageNo(t) + 1 ELSE NoToken]

\* files().delete(fileId=id).execute(), when it succeeds
DeleteRecord(s, id) ==
    [i \in 1..Len(s) |-> SelectSeq(s[i], LAMBDA r : r.id # id)]

\* ---------------------------------------------------------------- helpers
EmptyMap == [x \in {} |-> 0]

\* the for loop of remove_duplicate_files: file_names keeps the first id seen
\* for a name, every later record of that name is appended to the list
RECURSIVE Scan(_, _, _)
Scan(fs, file_names, duplicate_files_ids) ==
    IF fs = <<>> THEN duplicate_files_ids
    ELSE LET file == Head(fs) IN
         IF file.name \in DOMAIN file_names
         THEN Scan(Tail(fs), file_names, Append(duplicate_files_ids, file.id))
         ELSE Scan(Tail(fs), file_names @@ (file.name :> file.id),
                   duplicate_files_ids)

\* the scan with the map overwritten on a repeat: the earlier id is collected
RECURSIVE ScanKeepLast(_, _, _)
ScanKeepLast(fs, file_names, duplicate_files_ids) ==
    IF fs = <<>> THEN duplicate_files_ids
    ELSE LET file == Head(fs) IN
         IF file.name \in DOMAIN file_names
         THEN ScanKeepLast(Tail(fs), [file_names EXCEPT ![file.name] = file.id],
                           Append(duplicate_files_ids, file_names[file.name]))
         ELSE ScanKeepLast(Tail(fs), file_names @@ (file.name :> file.id),
                           duplicate_files_ids)

FindDuplicatesKeepLast(fs) == ScanKeepLast(fs, EmptyMap, <<>>)

\* the scan with the name dropped from the map once a repeat was collected
RECURSIVE ScanForgets(_, _, _)
ScanForgets(fs, file_names, duplicate_files_ids) ==
    IF fs = <<>> THEN duplicate_files_ids
    ELSE LET file == Head(fs) IN
         IF file.name \in DOMAIN file_names
         THEN ScanForgets(Tail(fs),
                          [n \in DOMAIN file_names \ {file.name} |-> file_names[n]],
                          Append(duplicate_files_ids, file.id))
         ELSE ScanForgets(Tail(fs), file_names @@ (file.name :> file.id),
                          duplicate_files_ids)

FindDuplicatesForgets(fs) == ScanForgets(fs, EmptyMap, <<>>)

FindDuplicates(fs) == Scan(fs, EmptyMap, <<>>)

\* the locals every call starts with
Begin(name) ==
    /\ op' = name
    /\ store0' = store
    /\ files' = <<>>
    /\ page_token' = NoToken
    /\ lastToken' = NoToken
    /\ tokensPassed' = <<>>
    /\ dups' = <<>>
    /\ delIdx' = 0
    /\ attempts' = <<>>
    /\ delResults' = <<>>

\* the call is under way at position p, no store call made yet
Running(p) ==
    /\ pc' = p
    /\ outcome' = ""
    /\ retKind' = ""
    /\ retList' = <<>>
    /\ retId' = 0
    /\ callLog' = <<>>
    /\ storeFailed' = FALSE

\* the call is over: it returned a value, or let an exception out
Finish(how, kind, lst, id) ==
    /\ pc' = "done"
    /\ outcome' = how
    /\ retKind' = kind
    /\ retList' = lst
    /\ retId' = id

Idle == pc \in {"idle", "done"}

\* ---------------------------------------------------------------- remove_duplicate_files
AllTrue(s) == \A i \in 1..Len(s) : s[i]

DedupStart ==
    /\ Idle
    /\ passNo < MaxPasses
    /\ Begin("dedup")
    /\ Running("enum")
    /\ passNo' = passNo + 1
    /\ prevListed' = (op = "dedup" /\ pc = "done" /\ ~storeFailed)
    /\ prevDeleted' = (op = "dedup" /\ pc = "done" /\ AllTrue(delResults))
    /\ UNCHANGED <<store, xferVars, fmtVars>>

\* one turn of the while loop whose list request answers; when the answer
\* carries no token the scan follows, and the delete loop is entered or the
\* method returns
DedupFetchOk ==
    /\ op = "dedup" /\ pc = "enum"
    /\ LET results == ListPage(store, page_token)
           fs      == files \o results.files
           tok     == results.nextPageToken
           found   == FindDuplicates(fs)
       IN /\ files' = fs
          /\ page_token' = tok
          /\ lastToken' = tok
          /\ tokensPassed' = Append(tokensPassed, page_token)
          /\ callLog' = Append(callLog, "list")
          /\ IF tok # NoToken
             THEN /\ pc' = "enum"
                  /\ UNCHANGED <<outcome, retKind, retList, retId, dups,
                                 delIdx>>
             ELSE IF fs = <<>> \/ found = <<>>
             THEN /\ Finish("returned", "None", <<>>, 0)
                  /\ dups' = IF fs = <<>> THEN <<>> ELSE found
                  /\ UNCHANGED delIdx
             ELSE /\ pc' = "delete"
                  /\ dups' = found
                  /\ delIdx' = 1
                  /\ UNCHANGED <<outcome, retKind, retList, retId>>
    /\ UNCHANGED <<storeVars, op, storeFailed, attempts, delResults, passNo,
                   prevListed, prevDeleted, xferVars, fmtVars>>

\* the failed list request taken for the end of the listing
DedupFetchFailGoesOn ==
    /\ op = "dedup" /\ pc = "enum"
    /\ tokensPassed' = Append(tokensPassed, page_token)
    /\ callLog' = Append(callLog, "list")
    /\ storeFailed' = TRUE
    /\ dups' = FindDuplicates(files)
    /\ IF FindDuplicates(files) = <<>>
       THEN /\ Finish("returned", "None", <<>>, 0)
            /\ UNCHANGED delIdx
       ELSE /\ pc' = "delete"
            /\ delIdx' = 1
            /\ UNCHANGED <<outcome, retKind, retList, retId>>
    /\ UNCHANGED <<storeVars, op, files, page_token, lastToken, attempts,
                   delResults, passNo, prevListed, prevDeleted, xferVars,
                   fmtVars>>

\* the list request raises: the outer except logs it and the method returns
DedupFetchFail ==
    /\ op = "dedup" /\ pc = "enum"
    /\ tokensPassed' = Append(tokensPassed, page_token)
    /\ callLog' = Append(callLog, "list")
    /\ storeFailed' = TRUE
    /\ Finish("returned", "None", <<>>, 0)
    /\ UNCHANGED <<storeVars, op, files, page_token, lastToken, dedupVars,
                   xferVars, fmtVars>>

\* the for loop left after its first turn
AfterDeleteStops ==
    /\ Finish("returned", "None", <<>>, 0)
    /\ UNCHANGED delIdx

\* after delete_file returned: the for loop goes on, or the method returns
AfterDelete ==
    IF delIdx < Len(dups)
    THEN /\ delIdx' = delIdx + 1
         /\ UNCHANGED <<pc, outcome, retKind, retList, retId>>
    ELSE /\ Finish("returned", "None", <<>>, 0)
         /\ UNCHANGED delIdx

\* delete_file whose delete request succeeds: returns True
DeleteFileOk ==
    /\ op = "dedup" /\ pc = "delete"
    /\ store' = DeleteRecord(store, dups[delIdx])
    /\ attempts' = Append(attempts, dups[delIdx])
    /\ delResults' = Append(delResults, TRUE)
    /\ callLog' = Append(callLog, "delete")
    /\ AfterDelete
    /\ UNCHANGED <<store0, op, files, page_token, lastToken, tokensPassed,
                   storeFailed, dups, passNo, prevListed, prevDeleted,
                   xferVars, fmtVars>>

\* delete_file letting the exception out: the outer except of
\* remove_duplicate_files ends the for loop
DeleteFileFailRaises ==
    /\ op = "dedup" /\ pc = "delete"
    /\ attempts' = Append(attempts, dups[delIdx])
    /\ callLog' = Append(callLog, "delete")
    /\ Finish("returned", "None", <<>>, 0)
    /\ UNCHANGED <<storeVars, op, files, page_token, lastToken, tokensPassed,
                   storeFailed, dups, delIdx, delResults, passNo, prevListed,
                   prevDeleted,
                   xferVars, fmtVars>>

\* delete_file whose delete request raises: logs and returns False
DeleteFileFail ==
    /\ op = "dedup" /\ pc = "delete"
    /\ attempts' = Append(attempts, dups[delIdx])
    /\ delResults' = Append(delResults, FALSE)
    /\ callLog' = Append(callLog, "delete")
    /\ AfterDelete
    /\ UNCHANGED <<storeVars, op, files, page_token, lastToken, tokensPassed,
                   storeFailed, dups, passNo, prevListed, prevDeleted,
                   xferVars, fmtVars>>

\* ---------------------------------------------------------------- list_files
ListStart ==
    /\ pc = "idle"
    /\ Begin("list")
    /\ Running("loop")
    /\ UNCHANGED <<store, passNo, prevListed, prevDeleted, xferVars, fmtVars>>

\* one turn of the while loop whose list request answers: an empty page
\* breaks out before the token is read, a page with no token breaks out
\* after its records were appended
ListFetchOk ==
    /\ op = "list" /\ pc = "loop"
    /\ LET results == ListPage(store, page_token)
           page    == results.files
           tok     == results.nextPageToken
       IN /\ tokensPassed' = Append(tokensPassed, page_token)
          /\ callLog' = Append(callLog, "list")
          /\ lastToken' = tok
          /\ IF page = <<>>
             THEN /\ Finish("returned", "list", files, 0)
                  /\ UNCHANGED <<files, page_token>>
             ELSE /\ files' = files \o page
                  /\ page_token' = tok
                  /\ IF tok = NoToken
                     THEN Finish("returned", "list", files \o page, 0)
                     ELSE UNCHANGED <<pc, outcome, retKind, retList, retId>>
    /\ UNCHANGED <<storeVars, op, storeFailed, dedupVars, xferVars, fmtVars>>

\* list_files without its except clause
ListFetchFailRaises ==
    /\ op = "list" /\ pc = "loop"
    /\ tokensPassed' = Append(tokensPassed, page_token)
    /\ callLog' = Append(callLog, "list")
    /\ storeFailed' = TRUE
    /\ Finish("raised", "", <<>>, 0)
    /\ UNCHANGED <<storeVars, op, files, page_token, lastToken, dedupVars,
                   xferVars, fmtVars>>

\* the list request raises: the except logs it and returns []
ListFetchFail ==
    /\ op = "list" /\ pc = "loop"
    /\ tokensPassed' = Append(tokensPassed, page_token)
    /\ callLog' = Append(callLog, "list")
    /\ storeFailed' = TRUE
    /\ Finish("returned", "list", <<>>, 0)
    /\ UNCHANGED <<storeVars, op, files, page_token, lastToken, dedupVars,
                   xferVars, fmtVars>>

\* ---------------------------------------------------------------- upload_pdf
MaxId(s) ==
    LET ids == {Flatten(s)[i].id : i \in 1..Len(Flatten(s))}
    IN IF ids = {} THEN 0 ELSE CHOOSE m \in ids : \A k \in ids : k <= m

\* files().create(body={'name': n}, ...).execute(), when it succeeds
CreateRecord(s, n) ==
    [s EXCEPT ![Len(s)] = Append(@, Rec(MaxId(s) + 1, n))]

\* the create request succeeds: the new record's id is returned
UploadOk ==
    /\ pc = "idle"
    /\ Begin("upload")
    /\ \E n \in Names : store' = CreateRecord(store, n)
    /\ callLog' = <<"create">>
    /\ storeFailed' = FALSE
    /\ Finish("returned", "id", <<>>, MaxId(store) + 1)
    /\ UNCHANGED <<passNo, prevListed, prevDeleted, xferVars, fmtVars>>

\* MediaFileUpload cannot read the local path, or the create request raises:
\* the except logs it and the method falls off its end
UploadFail ==
    /\ pc = "idle"
    /\ \E atStore \in BOOLEAN :
          /\ Begin("upload")
          /\ callLog' = IF atStore THEN <<"create">> ELSE <<>>
          /\ storeFailed' = atStore
    /\ Finish("returned", "None", <<>>, 0)
    /\ UNCHANGED <<store, passNo, prevListed, prevDeleted, xferVars, fmtVars>>

\* ---------------------------------------------------------------- download_pdf
\* status.progress() of the downloader after k of n chunks
Progress(k, n) == [num |-> k, den |-> n]

\* get_media builds the request, io.FileIO(path, 'wb') creates or truncates
\* the destination
DownloadOpen ==
    /\ pc = "idle"
    /\ Begin("download")
    /\ Running("chunks")
    /\ \E n \in 1..MaxChunks : nChunks' = n
    /\ localFile' = [exists |-> TRUE, content |-> <<>>]
    /\ written' = 0
    /\ progress' = <<>>
    /\ UNCHANGED <<store, passNo, prevListed, prevDeleted, fmtVars>>

\* io.FileIO raises (the destination cannot be opened): logged, no chunk asked
DownloadOpenFail ==
    /\ pc = "idle"
    /\ Begin("download")
    /\ callLog' = <<>>
    /\ storeFailed' = FALSE
    /\ Finish("returned", "None", <<>>, 0)
    /\ UNCHANGED <<store, passNo, prevListed, prevDeleted, xferVars, fmtVars>>

\* downloader.next_chunk() answers: the chunk is written, the progress logged,
\* and the loop ends when the downloader says done
DownloadChunkOk ==
    /\ op = "download" /\ pc = "chunks"
    /\ callLog' = Append(callLog, "chunk")
    /\ written' = written + 1
    /\ localFile' = [localFile EXCEPT !.content = Append(@, written + 1)]
    /\ progress' = Append(progress, Progress(written + 1, nChunks))
    /\ IF written + 1 = nChunks
       THEN Finish("returned", "None", <<>>, 0)
       ELSE UNCHANGED <<pc, outcome, retKind, retList, retId>>
    /\ UNCHANGED <<storeVars, op, files, page_token, lastToken, tokensPassed,
                   storeFailed, dedupVars, nChunks, fmtVars>>

\* a failed download removing its partial file
DownloadChunkFailCleansUp ==
    /\ op = "download" /\ pc = "chunks"
    /\ callLog' = Append(callLog, "chunk")
    /\ storeFailed' = TRUE
    /\ localFile' = [exists |-> FALSE, content |-> <<>>]
    /\ Finish("returned", "None", <<>>, 0)
    /\ UNCHANGED <<storeVars, op, files, page_token, lastToken, tokensPassed,
                   dedupVars, nChunks, written, progress, fmtVars>>

\* downloader.next_chunk() raises: the with block closes the file, the except
\* logs it; nothing removes what was written
DownloadChunkFail ==
    /\ op = "download" /\ pc = "chunks"
    /\ callLog' = Append(callLog, "chunk")
    /\ storeFailed' = TRUE
    /\ Finish("returned", "None", <<>>, 0)
    /\ UNCHANGED <<storeVars, op, files, page_token, lastToken, tokensPassed,
                   dedupVars, xferVars, fmtVars>>

\* ---------------------------------------------------------------- convert_bytes
K == 1024
Chars  == {"0", "1", "2", "3", "4", "-", " ", "x"}
Digits == {"0", "1", "2", "3", "4"}
NA     == <<"N", "/", "A">>

DigitVal(c) ==
    CASE c = "0" -> 0 [] c = "1" -> 1 [] c = "2" -> 2 [] c = "3" -> 3 [] c = "4" -> 4

\* str.strip() as int() applies it to its argument
RECURSIVE LStrip(_)
LStrip(s) == IF s # <<>> /\ Head(s) = " " THEN LStrip(Tail(s)) ELSE s

RECURSIVE RStrip(_)
RStrip(s) ==
    IF s # <<>> /\ s[Len(s)] = " " THEN RStrip(SubSeq(s, 1, Len(s) - 1)) ELSE s

RECURSIVE DecVal(_, _)
DecVal(s, acc) ==
    IF s = <<>> THEN acc ELSE DecVal(Tail(s), acc * 10 + DigitVal(Head(s)))

\* int(x): the value, or the exception int raises
ToInt(kind, n, str) ==
    IF kind = "int" THEN [err |-> "", v |-> n]
    ELSE IF kind = "none" THEN [err |-> "TypeError", v |-> 0]
    ELSE LET t    == RStrip(LStrip(str))
             neg  == t # <<>> /\ Head(t) = "-"
             body == IF neg THEN Tail(t) ELSE t
         IN IF body # <<>> /\ \A i \in 1..Len(body) : body[i] \in Digits
            THEN [err |-> "", v |-> IF neg THEN -DecVal(body, 0) ELSE DecVal(body, 0)]
            ELSE [err |-> "ValueError", v |-> 0]

\* b / den formatted :.2f, in hundredths: the quotient is exact in a float
\* (den is a power of two), so the format rounds it half to even
Hundredths(b, den) ==
    LET whole == b \div den
        rem   == b % den
        a     == (rem \div K) * 100
        rest  == (a % (den \div K)) * K + (rem % K) * 100
        q     == a \div (den \div K) + rest \div den
        r     == rest % den
        up    == r > den \div 2 \/ (r = den \div 2 /\ q % 2 = 1)
    IN whole * 100 + q + (IF up THEN 1 ELSE 0)

\* the if/elif chain over the converted size
Bracket(b) ==
    IF b < K THEN [unit |-> "bytes", value |-> b]
    ELSE IF b < K * K THEN [unit |-> "KB", value |-> Hundredths(b, K)]
    ELSE IF b < K * K * K THEN [unit |-> "MB", value |-> Hundredths(b, K * K)]
    ELSE [unit |-> "GB", value |-> Hundredths(b, K * K * K)]

\* which exceptions the except clause of convert_bytes catches
Caught(err) == err = "ValueError"

ConvertBytes(kind, n, str) ==
    IF kind = "str" /\ str = NA THEN [unit |-> "N/A", value |-> 0]
    ELSE LET c == ToInt(kind, n, str)
         IN IF c.err = "" THEN Bracket(c.v)
            ELSE IF Caught(c.err) THEN [unit |-> "Invalid size", value |-> 0]
            ELSE [unit |-> c.err, value |-> 0]

Units == {"bytes", "KB", "MB", "GB", "N/A", "Invalid size"}

IntInputs ==
    {-1, 0, 1, K - 1, K, K + 1, K + 128, K * K - 1, K * K, K * K + 1,
     K * K * K - 1, K * K * K, K * K * K + 1}

StrInputs == UNION {[1..n -> Chars] : n \in 0..MaxStrLen} \cup {NA}

\* a call convert_bytes(x) with x an int, a str or None
ConvertCall ==
    /\ pc = "idle"
    /\ \E kind \in {"int", "str", "none"} :
       \E n \in (IF kind = "int" THEN IntInputs ELSE {0}) :
       \E str \in (IF kind = "str" THEN StrInputs ELSE {<<>>}) :
          /\ argKind' = kind
          /\ argInt' = n
          /\ argStr' = str
          /\ fmtOut' = ConvertBytes(kind, n, str)
          /\ outcome' = IF ConvertBytes(kind, n, str).unit \in Units
                        THEN "returned" ELSE "raised"
    /\ op' = "fmt"
    /\ pc' = "done"
    /\ UNCHANGED <<storeVars, retKind, retList, retId, listVars, dedupVars,
                   xferVars>>

\* ---------------------------------------------------------------- specifications
InitCommon ==
    /\ store0 = store
    /\ op = ""
    /\ pc = "idle"
    /\ outcome = ""
    /\ retKind = ""
    /\ retList = <<>>
    /\ retId = 0
    /\ files = <<>>
    /\ page_token = NoToken
    /\ lastToken = NoToken
    /\ tokensPassed = <<>>
    /\ callLog = <<>>
    /\ storeFailed = FALSE
    /\ dups = <<>>
    /\ delIdx = 0
    /\ attempts = <<>>
    /\ delResults = <<>>
    /\ passNo = 0
    /\ prevListed = FALSE
    /\ prevDeleted = FALSE
    /\ nChunks = 0
    /\ written = 0
    /\ progress = <<>>
    /\ argKind = "none"
    /\ argInt = 0
    /\ argStr = <<>>
    /\ fmtOut = [unit |-> "", value |-> 0]

Init ==
    /\ store \in InitStores
    /\ InitCommon
    /\ localFile = [exists |-> FALSE, content |-> <<>>]

Next ==
    \/ DedupStart
    \/ DedupFetchOk
    \/ DedupFetchFail
    \/ DeleteFileOk
    \/ DeleteFileFail

Spec == Init /\ [][Next]_vars

\* One call of list_files, upload_pdf or download_pdf against a store; the
\* destination of a download may already exist.
OldFiles ==
    {[exists |-> FALSE, content |-> <<>>]} \cup
    {[exists |-> TRUE, content |-> [i \in 1..k |-> 0]] : k \in 0..MaxOld}

InitClient ==
    /\ store \in InitStores
    /\ InitCommon
    /\ localFile \in OldFiles

NextClient ==
    \/ ListStart
    \/ ListFetchOk
    \/ ListFetchFail
    \/ UploadOk
    \/ UploadFail
    \/ DownloadOpen
    \/ DownloadOpenFail
    \/ DownloadChunkOk
    \/ DownloadChunkFail

SpecClient == InitClient /\ [][NextClient]_vars

\* One call of convert_bytes.
InitFmt ==
    /\ store = << <<>> >>
    /\ InitCommon
    /\ localFile = [exists |-> FALSE, content |-> <<>>]

NextFmt == ConvertCall

SpecFmt == InitFmt /\ [][NextFmt]_vars

\* ================================================================ properties
Catalog0 == Flatten(store0)

StoreIds(st) == {Flatten(st)[i].id : i \in 1..Len(Flatten(st))}

\* record i of fs has the name of a record at an earlier position
EarlierSameName(fs, i) == \E j \in 1..(i - 1) : fs[j].name = fs[i].name

\* the ids of the records of fs whose name occurred earlier, in catalog order
LaterDuplicates(fs) ==
    LET marked == SelectSeq([i \in 1..Len(fs) |-> [pos |-> i, id |-> fs[i].id]],
                            LAMBDA e : EarlierSameName(fs, e.pos))
    IN [k \in 1..Len(marked) |-> marked[k].id]

IsPrefix(a, b) == Len(a) <= Len(b) /\ SubSeq(b, 1, Len(a)) = a

Occurs(x, sq) == \E i \in 1..Len(sq) : sq[i] = x

DedupDone == op = "dedup" /\ pc = "done"
ListDone == op = "list" /\ pc = "done"

\* ---------------------------------------------------------------- C1
\* C1: a list response with zero records but a continuation token does not end
\* list_files: the next request is issued, and every record of every page is
\* in the returned list.
C1_EmptyPageContinues ==
    (ListDone /\ ~storeFailed) =>
        \A q \in 1..Len(store0) :
            /\ (q < Len(store0) /\ store0[q] = <<>>) => Len(tokensPassed) > q
            /\ \A k \in 1..Len(store0[q]) : Occurs(store0[q][k], retList)

\* ---------------------------------------------------------------- C2
RECURSIVE SumLen(_)
SumLen(pages) == IF pages = <<>> THEN 0 ELSE Len(Head(pages)) + SumLen(Tail(pages))

\* C2: when every list request answers, list_files passes no token first and
\* then the token of the previous response, and returns P1 \o ... \o Pn, whose
\* length is the sum of the page lengths.
C2_ReturnsConcatenation ==
    (ListDone /\ ~storeFailed) =>
        /\ tokensPassed = [i \in 1..Len(store0) |-> IF i = 1 THEN NoToken ELSE i]
        /\ retList = Catalog0
        /\ Len(retList) = SumLen(store0)

\* ---------------------------------------------------------------- C3
\* C3: the ids remove_duplicate_files passes to delete_file are exactly the
\* records whose name occurred earlier in the enumerated catalog, each once and
\* in the order found; first records of a name are never passed.
C3_DeletesExactlyLaterDuplicates ==
    (op = "dedup" /\ ~storeFailed /\ pc \in {"delete", "done"}) =>
        /\ IsPrefix(attempts, LaterDuplicates(files))
        /\ pc = "done" => attempts = LaterDuplicates(files)
        /\ \A i, j \in 1..Len(attempts) : attempts[i] = attempts[j] => i = j
        /\ \A i \in 1..Len(files) :
              ~EarlierSameName(files, i) => ~Occurs(files[i].id, attempts)

\* the catalog (1,a) (2,a) (3,b) (4,a): 2 and 4 were passed to delete_file, 3 not
C3_Witness ==
    /\ DedupDone /\ ~storeFailed
    /\ Len(files) = 4
    /\ attempts = <<2, 4>>
    /\ files[3].name # files[1].name

\* ---------------------------------------------------------------- C4
\* C4: delete_file returns True when the delete request succeeded and False
\* when it failed and never raises, so remove_duplicate_files attempts every
\* collected id whatever the earlier deletes did, and does not raise.
C4_DeleteFailureIsolated ==
    op = "dedup" =>
        /\ outcome # "raised"
        /\ Len(delResults) = Len(attempts)
        /\ \A i \in 1..Len(delResults) :
              delResults[i] <=> attempts[i] \notin StoreIds(store)
        /\ (pc = "done" /\ ~storeFailed) => attempts = dups

\* the first delete failed, the second was still attempted and succeeded
C4_Witness ==
    /\ DedupDone
    /\ Len(attempts) >= 2
    /\ ~delResults[1]
    /\ delResults[2]
    /\ outcome = "returned"

\* ---------------------------------------------------------------- C5
ClientDone == pc = "done" /\ op \in {"list", "upload", "download"}

C6_ReturnsCount ==
    DedupDone => retKind = "int" /\ retId = Len(attempts)

\* C6 as the code has it: the method returns None in every case; with
\* enumeration complete it issues as many delete requests as there are
\* records whose name occurred earlier, and none for an empty catalog.
C6_ReturnsNoneAttemptsAll ==
    DedupDone =>
        /\ retKind = "None"
        /\ ~storeFailed =>
              Len(attempts) =
                  Cardinality({i \in 1..Len(Catalog0) : EarlierSameName(Catalog0, i)})
        /\ Catalog0 = <<>> => ~Occurs("delete", callLog)

\* four records of one name: three deletions attempted, None returned
C6_Witness ==
    /\ DedupDone
    /\ Len(Catalog0) = 4
    /\ Len(attempts) = 3
    /\ retKind = "None"

\* ---------------------------------------------------------------- C7
Opened == op = "download" /\ nChunks > 0

\* a <= b for progress values
Leq(a, b) == a.num * b.den <= b.num * a.den
IsOne(a) == a.num = a.den

NoDupNames(fs) == \A i \in 1..Len(fs) : ~EarlierSameName(fs, i)

Numeric == argKind = "int" \/ (argKind = "str" /\ ToInt("str", 0, argStr).err = "")
ArgValue == ToInt(argKind, argInt, argStr).v

\* C9: convert_bytes never raises; an integer value below 1024 gives bytes,
\* from 1024 KB, from 1024^2 MB, from 1024^3 GB; 'N/A' gives N/A; any other
\* input gives Invalid size.
C9_NeverRaisesBrackets ==
    (op = "fmt" /\ pc = "done") =>
        /\ outcome = "returned"
        /\ IF argKind = "str" /\ argStr = NA THEN fmtOut.unit = "N/A"
           ELSE IF ~Numeric THEN fmtOut.unit = "Invalid size"
           ELSE /\ ArgValue < K <=> fmtOut.unit = "bytes"
                /\ (K <= ArgValue /\ ArgValue < K * K) <=> fmtOut.unit = "KB"
                /\ (K * K <= ArgValue /\ ArgValue < K * K * K) <=> fmtOut.unit = "MB"
                /\ ArgValue >= K * K * K <=> fmtOut.unit = "GB"

\* ---------------------------------------------------------------- C10
\* C10: in remove_duplicate_files every list request precedes every delete
\* request, the first delete follows a response without a token, and a failed
\* list request means no delete request and an unchanged store.
C10_ListBeforeDelete ==
    op = "dedup" =>
        /\ \A i, j \in 1..Len(callLog) :
              (callLog[i] = "delete" /\ callLog[j] = "list") => j < i
        /\ Occurs("delete", callLog) =>
              /\ lastToken = NoToken
              /\ ~storeFailed
              /\ files = Catalog0
        /\ storeFailed =>
              /\ ~Occurs("delete", callLog)
              /\ attempts = <<>>
              /\ store = store0

\* the second list request failed: the duplicate on the first page stays
C10_Witness ==
    /\ DedupDone /\ storeFailed
    /\ Len(callLog) = 2
    /\ LaterDuplicates(files) # <<>>
    /\ store = store0

====
